---- MODULE Spec2Model ----
(***************************************************************************)
(* Model of the jupiter-proxy quote routing core.                          *)
(*                                                                         *)
(*   SpecRouter : the multi-DEX router (getBestQuote) walking the five     *)
(*                executors (jupiter, raydium, orca, phoenix, openbook).   *)
(*   Spec       : the /quote endpoint of server.ts: validation, the        *)
(*                15 s quote cache and fetchWithFailover over the Jupiter  *)
(*                quote endpoints, with several requests in flight.        *)
(*                                                                         *)
(* Strings that the code converts with Number() are sequences of one-      *)
(* character strings, so that the conversion is computed, not assumed.     *)
(***************************************************************************)
EXTENDS Integers, Sequences, FiniteSets, TLC

VARIABLES
    \* ---- router (getBestQuote) ----
    raydiumRev,   \* which raydium.ts revision is built: "direct" | "quoteOnly"
    rq,           \* arguments of the running getBestQuote call
    cfg,          \* RouteConfig computed for it
    idx,          \* position of the for-loop in cfg.executorOrder
    calls,        \* executors whose quote() this call has invoked, in order
    rets,         \* what those quote() calls resolved to, in order of resolution
    faced,        \* how the network answered the latest quote() call
    result,       \* what getBestQuote resolved to
    rpc,          \* "idle" | "walk" | "await" | "done"
    \* ---- server (/quote) ----
    now,          \* Date.now(), in ms
    quoteCache,   \* the module-level Map: key -> NoEntry | [data, expires]
    lastFill,     \* per key: start time, data and backend query of the latest lookup that filled the cache
    req,          \* per in-flight request: handler position and locals
    \* ---- one failover fetch ----
    failover,     \* the running fetch loop: its URLs, position, requests made, result
    \* ---- executeSwap ----
    exec,         \* the running executeSwap call: its quote, calls made, result
    \* ---- getAllQuotes ----
    allq          \* the running getAllQuotes call: executors launched, settled, result

rvars == <<raydiumRev, rq, cfg, idx, calls, rets, faced, result, rpc>>
svars == <<now, quoteCache, lastFill, req>>
ovars == <<failover, exec, allq>>
vars == <<raydiumRev, rq, cfg, idx, calls, rets, faced, result, rpc,
          now, quoteCache, lastFill, req, failover, exec, allq>>

(***************************************************************************)
(* Values                                                                  *)
(***************************************************************************)
\* undefined / missing JSON field or query parameter
Absent == <<"undefined">>

SOL_MINT == "SOL"
USDC_MINT == "USDC"
USDT_MINT == "USDT"
OTHER_MINT == "BONK"
Mints == {SOL_MINT, USDC_MINT, USDT_MINT, OTHER_MINT}

Digits == {"0", "1", "2", "3", "4", "5", "6", "7", "8", "9"}

DigitVal(c) ==
    CASE c = "0" -> 0 [] c = "1" -> 1 [] c = "2" -> 2 [] c = "3" -> 3
      [] c = "4" -> 4 [] c = "5" -> 5 [] c = "6" -> 6 [] c = "7" -> 7
      [] c = "8" -> 8 [] c = "9" -> 9

IsDigits(s) == \A i \in 1..Len(s) : s[i] \in Digits

RECURSIVE NumberOf(_)
\* Number(s) for a string of decimal digits; Number("") is 0
NumberOf(s) ==
    IF Len(s) = 0 THEN 0
    ELSE 10 * NumberOf(SubSeq(s, 1, Len(s) - 1)) + DigitVal(s[Len(s)])

\* JavaScript truthiness of a string-valued field
Truthy(s) == s # Absent /\ s # <<>>

\* results of quote(): null, an exception, or a Quote
Null == [kind |-> "null"]
Throw == [kind |-> "throw"]

(***************************************************************************)
(* What the network can answer to one fetch()                              *)
(***************************************************************************)
MaxHops == 2

Hops(n) == [i \in 1..n |-> "hop"]

\* a routePlan field: missing, or an array of 0..MaxHops hops
PlanVals == {Absent} \cup {Hops(n) : n \in 0..MaxHops}

\* an output-amount field: missing, "", "0", "00", "94", "95"
OutVals == {Absent, <<>>, <<"0">>, <<"0", "0">>, <<"9", "4">>, <<"9", "5">>}

\* a body on which response.json() rejects
Malformed ==
    [kind |-> "malformed", success |-> FALSE, hasData |-> FALSE,
     out |-> Absent, plan |-> Absent]

\* the JSON document null
JsonNull ==
    [kind |-> "null", success |-> FALSE, hasData |-> FALSE,
     out |-> Absent, plan |-> Absent]

\* JSON objects; success/hasData are the envelope fields only Raydium reads
ObjectBodies(flags) ==
    [kind : {"object"}, success : flags, hasData : flags,
     out : OutVals, plan : PlanVals]

Statuses == {200, 429, 500}

\* response.ok
IsOk(status) == status >= 200 /\ status <= 299

\* fetch() rejected: connection error, DNS failure, abort on timeout
NetThrow == [fail |-> TRUE, status |-> 0, body |-> Malformed]

Responses(bodies) ==
    [fail : {FALSE}, status : {200}, body : bodies]
        \cup [fail : {FALSE}, status : Statuses \ {200}, body : {Malformed}]

Outcomes(bodies) == {NetThrow} \cup Responses(bodies)

PlainBodies == {Malformed, JsonNull} \cup ObjectBodies({TRUE})
EnvelopeBodies == {Malformed, JsonNull} \cup ObjectBodies(BOOLEAN)

(***************************************************************************)
(* Executors                                                               *)
(***************************************************************************)
ExecutorNames == {"jupiter", "raydium", "orca", "phoenix", "openbook"}

\* const executors: SwapExecutor[] (priority order)
executors == <<"jupiter", "raydium", "orca", "phoenix", "openbook">>

MkQuote(source, params, out, plan) ==
    [kind |-> "quote", source |-> source,
     inputMint |-> params.inputMint, outputMint |-> params.outputMint,
     outAmount |-> out, slippageBps |-> params.slippageBps,
     routePlan |-> plan]

\* quote() without its handler: the exception leaves quote()
CatchToNull_Rethrow(r) == r

\* try { ... } catch (err) { return null; } around the body of quote()
CatchToNull(r) == IF r.kind = "throw" THEN Null ELSE r

\* `!x || x === '0'` on an output-amount field
ZeroOrMissing(out) == ~Truthy(out) \/ out = <<"0">>

\* JUPITER_APIS: number of equivalent base URLs
NumJupiterApis == 2

RECURSIVE fetchJupiterFrom(_, _)
\* for (const baseUrl of JUPITER_APIS): a rejected fetch goes on to the next
\* URL; any response at all (status is never 0) is returned
fetchJupiterFrom(nets, i) ==
    IF i > Len(nets) THEN Null
    ELSE IF nets[i].fail THEN fetchJupiterFrom(nets, i + 1)
    ELSE [kind |-> "response", status |-> nets[i].status, body |-> nets[i].body]

fetchJupiter(nets) == fetchJupiterFrom(nets, 1)

JupiterCanHandle(params) == ~(NumberOf(params.amount) < 1000)

JupiterQuoteBody(params, nets) ==
    LET response == fetchJupiter(nets) IN
    IF response.kind = "null" THEN Null
    ELSE IF ~IsOk(response.status) THEN Null
    ELSE LET data == response.body IN
         IF data.kind # "object" THEN Throw
         ELSE IF ZeroOrMissing(data.out) THEN Null
         ELSE IF data.plan = Absent \/ Len(data.plan) = 0 THEN Null
         ELSE MkQuote("jupiter", params, data.out, data.plan)

JupiterQuote(params, nets) == CatchToNull(JupiterQuoteBody(params, nets))

RaydiumCanHandle(params) == TRUE

\* rev = "direct": src/executors/raydium.ts; rev = "quoteOnly": the quote-only revision
RaydiumQuoteBody(rev, params, net) ==
    IF net.fail THEN Throw
    ELSE IF ~IsOk(net.status) THEN Null
    ELSE LET data == net.body IN
         IF data.kind # "object" THEN Throw
         ELSE IF ~data.success \/ ~data.hasData THEN Null
         ELSE IF ZeroOrMissing(data.out) THEN Null
         ELSE IF rev = "quoteOnly"
              THEN IF data.plan = Absent \/ Len(data.plan) # 1 THEN Null
                   ELSE MkQuote("raydium", params, data.out, data.plan)
              ELSE MkQuote("raydium", params, data.out,
                           IF data.plan = Absent THEN <<"raydium">> ELSE data.plan)

RaydiumQuote(rev, params, net) == CatchToNull(RaydiumQuoteBody(rev, params, net))

OrcaCanHandle(params) == TRUE

OrcaQuoteBody(params, net) ==
    IF net.fail THEN Throw
    ELSE IF ~IsOk(net.status) THEN Null
    ELSE LET data == net.body IN
         IF data.kind # "object" THEN Throw
         ELSE IF ZeroOrMissing(data.out) THEN Null
         ELSE MkQuote("orca", params, data.out, <<"orca-whirlpool">>)

OrcaQuote(params, net) == CatchToNull(OrcaQuoteBody(params, net))

PHOENIX_MARKETS ==
    {[base |-> SOL_MINT, quote |-> USDC_MINT], [base |-> SOL_MINT, quote |-> USDT_MINT]}

OPENBOOK_MARKETS == {[base |-> SOL_MINT, quote |-> USDC_MINT]}

\* findMarket(inputMint, outputMint) !== null
findMarket(markets, inputMint, outputMint) ==
    \E m \in markets :
        \/ m.base = inputMint /\ m.quote = outputMint
        \/ m.quote = inputMint /\ m.base = outputMint

PhoenixCanHandle(params) == findMarket(PHOENIX_MARKETS, params.inputMint, params.outputMint)

PhoenixQuoteBody(params, net) ==
    IF ~findMarket(PHOENIX_MARKETS, params.inputMint, params.outputMint) THEN Null
    ELSE IF net.fail THEN Throw
    ELSE IF ~IsOk(net.status) THEN Null
    ELSE LET data == net.body IN
         IF data.kind # "object" THEN Throw
         ELSE IF ZeroOrMissing(data.out) THEN Null
         ELSE MkQuote("phoenix", params, data.out, <<"phoenix">>)

PhoenixQuote(params, net) == CatchToNull(PhoenixQuoteBody(params, net))

OpenBookCanHandle(params) == findMarket(OPENBOOK_MARKETS, params.inputMint, params.outputMint)

\* the placeholder: no network call, always null
OpenBookQuote(params) == Null

canHandle(e, params) ==
    CASE e = "jupiter" -> JupiterCanHandle(params)
      [] e = "raydium" -> RaydiumCanHandle(params)
      [] e = "orca" -> OrcaCanHandle(params)
      [] e = "phoenix" -> PhoenixCanHandle(params)
      [] e = "openbook" -> OpenBookCanHandle(params)

\* the network answers one quote() call of executor e may meet
NetsFor(e) ==
    CASE e = "jupiter" -> [1..NumJupiterApis -> Outcomes(PlainBodies)]
      [] e = "raydium" -> [1..1 -> Outcomes(EnvelopeBodies)]
      [] e = "orca" -> [1..1 -> Outcomes(PlainBodies)]
      [] e = "phoenix" -> [1..1 -> Outcomes(PlainBodies)]
      [] e = "openbook" -> {<<NetThrow>>}

RECURSIVE FailureModeFrom(_, _)
\* which failure mode the answers amount to, for the first answer that is a response:
\* "transport" (every fetch rejected), "status" (non-2xx), "body" (json() rejects or
\* yields null), "answer" (a 2xx JSON object)
FailureModeFrom(nets, i) ==
    IF i > Len(nets) THEN "transport"
    ELSE IF nets[i].fail THEN FailureModeFrom(nets, i + 1)
    ELSE IF ~IsOk(nets[i].status) THEN "status"
    ELSE IF nets[i].body.kind # "object" THEN "body"
    ELSE "answer"

FailureMode(nets) == FailureModeFrom(nets, 1)

\* executor.quote(params) under the network answers nets
ExecutorQuote(e, rev, params, nets) ==
    CASE e = "jupiter" -> JupiterQuote(params, nets)
      [] e = "raydium" -> RaydiumQuote(rev, params, nets[1])
      [] e = "orca" -> OrcaQuote(params, nets[1])
      [] e = "phoenix" -> PhoenixQuote(params, nets[1])
      [] e = "openbook" -> OpenBookQuote(params)

(***************************************************************************)
(* Router: getRouteConfig and getBestQuote                                 *)
(***************************************************************************)
SMALL_AMOUNT_THRESHOLD == 500000

\* 50_000_000_000 in the source; liquidity is counted in thousands here
MIN_LIQUIDITY_THRESHOLD == 50000000

\* 48 * 60 * 60 * 1000 ms
FRESH_TOKEN_AGE_MS == 48 * 60 * 60 * 1000

\* an optional numeric argument (tokenAge, liquidity)
NoHint == [given |-> FALSE, value |-> 0]
Hint(n) == [given |-> TRUE, value |-> n]

isStablePair(params) ==
    /\ params.inputMint \in {USDC_MINT, USDT_MINT}
    /\ params.outputMint \in {USDC_MINT, USDT_MINT}

\* a config that skips Jupiter for small amounts only
SkipJupiterFlag_SmallOnly(small, fresh) == small

\* skipJupiter = true in the small-amount branch and in the fresh-token branch
SkipJupiterFlag(small, fresh) == small \/ fresh

\* a fresh-token order that names raydium twice and leaves openbook out
FreshOrder_RaydiumTwice == <<"raydium", "raydium", "orca", "jupiter", "phoenix">>

\* executorOrder of the fresh-token branch
FreshOrder == <<"raydium", "orca", "jupiter", "phoenix", "openbook">>

getRouteConfig(params, tokenAge, liquidity) ==
    LET amount == NumberOf(params.amount)
        small == amount < SMALL_AMOUNT_THRESHOLD
        fresh == tokenAge.given /\ tokenAge.value < FRESH_TOKEN_AGE_MS
        lowLiq == liquidity.given /\ liquidity.value < MIN_LIQUIDITY_THRESHOLD
        order0 == <<"jupiter", "raydium", "orca", "phoenix", "openbook">>
        order1 == IF small
                  THEN <<"raydium", "orca", "phoenix", "jupiter", "openbook">>
                  ELSE order0
        order2 == IF fresh THEN FreshOrder ELSE order1
        order3 == IF lowLiq
                  THEN <<"raydium", "orca", "phoenix", "jupiter", "openbook">>
                  ELSE order2
        order4 == IF isStablePair(params)
                  THEN <<"phoenix", "jupiter", "raydium", "orca", "openbook">>
                  ELSE order3
    IN  [skipJupiter |-> SkipJupiterFlag(small, fresh),
         preferSingleHop |-> lowLiq,
         executorOrder |-> order4]

\* executors.find(e => e.name === executorName) found one
FindExecutor(name) == \E i \in 1..Len(executors) : executors[i] = name

\* loop body never reaches quote(): `if (config.skipJupiter && executorName === 'jupiter') continue`
ShouldSkip_Never(config, name) == FALSE

ShouldSkip(config, name) == config.skipJupiter /\ name = "jupiter"

\* `quote && quote.outAmount && quote.outAmount !== '0'`
RouterAccepts(q) == q.kind = "quote" /\ Truthy(q.outAmount) /\ q.outAmount # <<"0">>

\* the loop body after `await executor.quote(params)`, inside try/catch:
\* return the quote, or log and go on to the next executor
AfterQuote(r) ==
    IF r.kind = "throw" THEN [return |-> FALSE, value |-> Null]
    ELSE IF RouterAccepts(r) THEN [return |-> TRUE, value |-> r]
    ELSE [return |-> FALSE, value |-> Null]

\* a router that throws when no executor produced a route
NoRouteResult_Throws == Throw

\* after the loop: `return null`
NoRouteResult == Null

Pending == [kind |-> "pending"]
NoParams == [inputMint |-> "", outputMint |-> "", amount |-> <<>>, slippageBps |-> 0]
NoConfig == [skipJupiter |-> FALSE, preferSingleHop |-> FALSE, executorOrder |-> <<>>]

\* amounts: dust, below and at the small-trade threshold, the scenario's 100_000_000
Amounts ==
    { <<"9", "9", "9">>,
      <<"1", "0", "0", "0">>,
      <<"4", "9", "9", "9", "9", "9">>,
      <<"5", "0", "0", "0", "0", "0">>,
      <<"1", "0", "0", "0", "0", "0", "0", "0", "0">> }

Slippages == {50}

SwapParams ==
    {p \in [inputMint : Mints, outputMint : Mints, amount : Amounts, slippageBps : Slippages] :
        p.inputMint # p.outputMint}

TokenAges == {NoHint, Hint(0), Hint(FRESH_TOKEN_AGE_MS)}
Liquidities == {NoHint, Hint(MIN_LIQUIDITY_THRESHOLD - 1), Hint(MIN_LIQUIDITY_THRESHOLD)}

ServerIdle ==
    /\ now = 0
    /\ quoteCache = <<>>
    /\ lastFill = <<>>
    /\ req = <<>>

\* no fetch loop and no executeSwap call is running
OthersIdle ==
    /\ failover = <<>>
    /\ exec = <<>>
    /\ allq = <<>>

InitRouter ==
    /\ raydiumRev \in {"direct", "quoteOnly"}
    /\ rq = [params |-> NoParams, tokenAge |-> NoHint, liquidity |-> NoHint]
    /\ cfg = NoConfig
    /\ idx = 1
    /\ calls = <<>>
    /\ rets = <<>>
    /\ faced = "none"
    /\ result = Pending
    /\ rpc = "idle"
    /\ ServerIdle
    /\ OthersIdle

\* getBestQuote(params, tokenAge, liquidity) is called
BeginBestQuote ==
    /\ rpc = "idle"
    /\ \E p \in SwapParams, age \in TokenAges, liq \in Liquidities :
        /\ rq' = [params |-> p, tokenAge |-> age, liquidity |-> liq]
        /\ cfg' = getRouteConfig(p, age, liq)
    /\ idx' = 1
    /\ calls' = <<>>
    /\ rets' = <<>>
    /\ faced' = "none"
    /\ result' = Pending
    /\ rpc' = "walk"
    /\ UNCHANGED <<raydiumRev, svars, ovars>>

\* a loop iteration that ends in `continue` before quote()
SkipExecutor ==
    /\ rpc = "walk"
    /\ idx <= Len(cfg.executorOrder)
    /\ LET name == cfg.executorOrder[idx] IN
        \/ ~FindExecutor(name)
        \/ ShouldSkip(cfg, name)
        \/ ~canHandle(name, rq.params)
    /\ idx' = idx + 1
    /\ UNCHANGED <<raydiumRev, rq, cfg, calls, rets, faced, result, rpc, svars, ovars>>

\* a walk that calls the next quote() while one is still awaited
MayStart_WhileAwaiting(pc) == pc \in {"walk", "await"}

\* the loop reaches `executor.quote(params)` only between two awaits
MayStart(pc) == pc = "walk"

\* a loop iteration calls executor.quote(params) and suspends on `await`
StartQuote ==
    /\ MayStart(rpc)
    /\ idx <= Len(cfg.executorOrder)
    /\ LET name == cfg.executorOrder[idx] IN
        /\ FindExecutor(name)
        /\ ~ShouldSkip(cfg, name)
        /\ canHandle(name, rq.params)
        /\ calls' = Append(calls, name)
    /\ rpc' = "await"
    /\ UNCHANGED <<raydiumRev, rq, cfg, idx, rets, faced, result, svars, ovars>>

\* the awaited quote() resolves and the iteration goes on after `await`
TryExecutor ==
    /\ rpc = "await"
    /\ LET name == cfg.executorOrder[idx] IN
        /\ \E nets \in NetsFor(name) :
            LET r == ExecutorQuote(name, raydiumRev, rq.params, nets)
                after == AfterQuote(r)
            IN  /\ rets' = Append(rets, r)
                /\ faced' = IF name = "openbook" THEN "none" ELSE FailureMode(nets)
                /\ IF after.return
                   THEN result' = after.value /\ rpc' = "done" /\ idx' = idx
                   ELSE result' = result /\ rpc' = "walk" /\ idx' = idx + 1
    /\ UNCHANGED <<raydiumRev, rq, cfg, calls, svars, ovars>>

\* the loop is over: 'No route found across all executors'
NoRoute ==
    /\ rpc = "walk"
    /\ idx > Len(cfg.executorOrder)
    /\ result' = NoRouteResult
    /\ rpc' = "done"
    /\ UNCHANGED <<raydiumRev, rq, cfg, idx, calls, rets, faced, svars, ovars>>

\* the caller has the result; the next call may start
ReturnBestQuote ==
    /\ rpc = "done"
    /\ rq' = [params |-> NoParams, tokenAge |-> NoHint, liquidity |-> NoHint]
    /\ cfg' = NoConfig
    /\ idx' = 1
    /\ calls' = <<>>
    /\ rets' = <<>>
    /\ faced' = "none"
    /\ result' = Pending
    /\ rpc' = "idle"
    /\ UNCHANGED <<raydiumRev, svars, ovars>>

NextRouter ==
    \/ BeginBestQuote
    \/ SkipExecutor
    \/ StartQuote
    \/ TryExecutor
    \/ NoRoute
    \/ ReturnBestQuote

SpecRouter == InitRouter /\ [][NextRouter]_vars

(***************************************************************************)
(* Claims about the router (checked under SpecRouter)                      *)
(***************************************************************************)
\* an executor the walk must call: not in the skip set and canHandle is true
IsEligible(e) == ~(cfg.skipJupiter /\ e = "jupiter") /\ canHandle(e, rq.params)

EligibleOrder == SelectSeq(cfg.executorOrder, IsEligible)

\* a quote() result that is non-null with non-zero output, as the router reads it:
\* an outAmount that is present and is not the string "0"
NonZeroQuote(q) == q.kind = "quote" /\ Truthy(q.outAmount) /\ q.outAmount # <<"0">>

C2_NoEmptyOrZeroQuoteReturned ==
    (rpc = "done" /\ result.kind = "quote") =>
        /\ Len(result.routePlan) >= 1
        /\ Truthy(result.outAmount)
        /\ NumberOf(result.outAmount) # 0

C9_ExecutorQuotesPositiveAndRouted ==
    \A i \in 1..Len(rets) :
        rets[i].kind = "quote" =>
            /\ Truthy(rets[i].outAmount)
            /\ NumberOf(rets[i].outAmount) > 0
            /\ Len(rets[i].routePlan) >= 1

\* C10: quote() of an executor never lets an exception out: whatever the network
\* answered (rejected fetch, non-2xx, unparsable or null body), it resolved to null
\* or to a Quote.
C10_QuoteNeverThrows ==
    \A i \in 1..Len(rets) :
        /\ rets[i].kind \in {"null", "quote"}
        /\ (i = Len(rets) /\ faced \in {"transport", "status", "body"}) => rets[i] = Null

\* C10 witness: an executor met a body that json() rejects and resolved to null
C10_Witness ==
    /\ Len(rets) >= 1
    /\ faced = "body"
    /\ rets[Len(rets)] = Null
    /\ calls[Len(calls)] \in {"raydium", "orca"}

\* C11: a quote() of a single-hop-only backend (every executor but the
\* aggregator) never resolves to a Quote whose route plan has more than one hop:
\* every Quote with such a source has a route plan of exactly one hop.
C11_DirectAmmQuotesSingleHop ==
    \A i \in 1..Len(rets) :
        (rets[i].kind = "quote" /\ rets[i].source # "jupiter") =>
            Len(rets[i].routePlan) = 1

\* C22: the walk of getBestQuote is sequential: at most one quote() is in flight
\* at any time, a quote() is in flight exactly while the walk is suspended on it,
\* and each call resolves before the next one is made (the k-th result is that of
\* the k-th call).
C22_WalkIsSequential ==
    /\ Len(rets) <= Len(calls)
    /\ Len(calls) - Len(rets) <= 1
    /\ rpc = "await" <=> Len(calls) = Len(rets) + 1
    /\ \A i \in 1..Len(rets) : rets[i].kind = "quote" => rets[i].source = calls[i]

\* C22 witness: after two executors resolved without a usable quote, the quote()
\* of a third one is in flight
C22_Witness ==
    /\ rpc = "await"
    /\ Len(calls) = 3
    /\ Len(rets) = 2

\* the executors whose quote() settles whatever the backend does: jupiter's fetch
\* carries AbortSignal.timeout(10000), openbook makes no network call; the fetch of
\* raydium, orca and phoenix carries no signal
SettlesForSure(e) == e \in {"jupiter", "openbook"}

\* the event loop runs every step that is ready; an awaited quote() is resolved
\* for sure only when its executor bounds it
SpecRouterFair ==
    /\ SpecRouter
    /\ WF_vars(SkipExecutor)
    /\ WF_vars(StartQuote)
    /\ WF_vars(NoRoute)
    /\ WF_vars(TryExecutor /\ SettlesForSure(cfg.executorOrder[idx]))

\* C32: every network call is bounded by a timeout of its own, so no executor's
\* quote() stays pending forever and getBestQuote, once called, returns (a quote
\* or null, or throws) even when a backend never answers.
C32_BestQuoteEventuallyReturns == (rpc \in {"walk", "await"}) ~> (rpc = "done")

\* the hints and pair of the running getBestQuote call
IsSmall == rpc # "idle" /\ NumberOf(rq.params.amount) < SMALL_AMOUNT_THRESHOLD
IsFresh == rpc # "idle" /\ rq.tokenAge.given /\ rq.tokenAge.value < FRESH_TOKEN_AGE_MS
IsLowLiquidity ==
    rpc # "idle" /\ rq.liquidity.given /\ rq.liquidity.value < MIN_LIQUIDITY_THRESHOLD
IsStable == rpc # "idle" /\ isStablePair(rq.params)

\* executor a was called, and before any call of executor b
CalledBefore(a, b) ==
    \E i \in 1..Len(calls) :
        /\ calls[i] = a
        /\ \A j \in 1..i : calls[j] # b

\* position of an executor in the computed order
PlaceOf(name) == CHOOSE i \in 1..Len(cfg.executorOrder) : cfg.executorOrder[i] = name

\* C27: for an amount below the small-trade threshold (500000), with any hints and
\* any pair, jupiter is not the first executor whose quote() getBestQuote calls
\* (it is not called at all).
C27_SmallAmountJupiterNotFirst ==
    IsSmall =>
        /\ Len(calls) >= 1 => calls[1] # "jupiter"
        /\ \A i \in 1..Len(calls) : calls[i] # "jupiter"

\* C27 witness: a small amount that jupiter can handle, on a stable pair whose order
\* has jupiter ahead of the direct AMMs: the first quote() called is raydium's
C27_Witness ==
    /\ IsSmall
    /\ JupiterCanHandle(rq.params)
    /\ IsStable
    /\ PlaceOf("jupiter") < PlaceOf("raydium")
    /\ Len(calls) >= 1
    /\ calls[1] = "raydium"

\* C28: whenever the liquidity hint is below the floor, raydium and orca are ahead
\* of jupiter in the executor order, for every pair and amount.
C28_LowLiquiditySingleHopFirst ==
    IsLowLiquidity =>
        /\ PlaceOf("raydium") < PlaceOf("jupiter")
        /\ PlaceOf("orca") < PlaceOf("jupiter")

\* C29: for a pair of two stable-value assets, getBestQuote calls phoenix and
\* openbook before it calls jupiter, raydium or orca.
C29_StablePairOrderBooksFirst ==
    IsStable =>
        \A i \in 1..Len(calls) :
            calls[i] \in {"jupiter", "raydium", "orca"} =>
                /\ \E j \in 1..(i - 1) : calls[j] = "phoenix"
                /\ \E j \in 1..(i - 1) : calls[j] = "openbook"

\* C30: when the token-age hint is below 48 h, raydium and then orca are called
\* before jupiter, for every amount and liquidity hint (jupiter is not called).
C30_FreshTokenDirectAmmsFirst ==
    IsFresh =>
        /\ Len(calls) >= 1 => calls[1] = "raydium"
        /\ Len(calls) >= 2 => calls[2] = "orca"
        /\ \A i \in 1..Len(calls) :
            calls[i] = "jupiter" =>
                CalledBefore("raydium", "jupiter") /\ CalledBefore("orca", "jupiter")

\* C30 witness: a fresh token with an amount that is not small: raydium and orca
\* were called, in that order, and the walk went on
C30_Witness ==
    /\ IsFresh
    /\ ~IsSmall
    /\ JupiterCanHandle(rq.params)
    /\ Len(calls) >= 3
    /\ calls[1] = "raydium"
    /\ calls[2] = "orca"

\* C35: for an amount below the small-trade threshold, or a token-age hint below
\* the freshness threshold, getBestQuote never calls jupiter's quote(): jupiter
\* stays in the executor order and is passed over, and the call returns null when
\* every other executor fails, even for params jupiter can handle.
C35_JupiterSkippedNotDropped ==
    (IsSmall \/ IsFresh) =>
        /\ cfg.skipJupiter
        /\ \E i \in 1..Len(cfg.executorOrder) : cfg.executorOrder[i] = "jupiter"
        /\ \A i \in 1..Len(calls) : calls[i] # "jupiter"
        /\ (rpc = "done" /\ \A i \in 1..Len(rets) : ~NonZeroQuote(rets[i]))
                => result = Null

\* C35 witness: a fresh token and an amount jupiter can handle: every executor
\* that was called failed, jupiter was not called, and the result is null
C35_Witness ==
    /\ IsFresh
    /\ ~IsSmall
    /\ JupiterCanHandle(rq.params)
    /\ rpc = "done"
    /\ result = Null
    /\ Len(calls) >= 2
    /\ \A i \in 1..Len(calls) : calls[i] # "jupiter"
    /\ idx > Len(cfg.executorOrder)

\* C36: for every amount, pair and hints the executor order of getRouteConfig
\* names each of the five executors exactly once, so one getBestQuote call calls
\* quote() on each executor at most once, five times at most.
C36_OrderIsPermutation ==
    rpc # "idle" =>
        /\ Len(cfg.executorOrder) = 5
        /\ \A e \in ExecutorNames :
            Cardinality({i \in 1..Len(cfg.executorOrder) : cfg.executorOrder[i] = e}) = 1
        /\ \A e \in ExecutorNames :
            Cardinality({i \in 1..Len(calls) : calls[i] = e}) <= 1
        /\ Len(calls) <= 5
        /\ \A i \in 1..Len(calls) : calls[i] \in ExecutorNames

\* C36 witness: a walk that called quote() on all five executors, once each
C36_Witness ==
    /\ rpc = "done"
    /\ Len(calls) = 5
    /\ \A e \in ExecutorNames : \E i \in 1..Len(calls) : calls[i] = e

(***************************************************************************)
(* Server: the /quote endpoint, its cache and fetchWithFailover            *)
(***************************************************************************)
\* quoteCache.set(key, { data: quote, expires: now + 15_000 })
TTL_MS == 15000

\* JUPITER_QUOTE_ENDPOINTS.length
NumQuoteEndpoints == 2

\* the /quote requests the model keeps in flight at once
Reqs == {"r1", "r2"}

\* the clock advances in steps of half the TTL (7.5 s, inside the 8 s timeout of
\* one fetch attempt), MaxTicks times at most
TickMs == TTL_MS \div 2
MaxTicks == 2

\* req.query: "" or Absent is a parameter that was not sent
QueryMints == {"", SOL_MINT, USDC_MINT}
QueryAmounts == {Absent, <<"0">>, <<"1", "0", "0">>}
QuerySlippages == {Absent, <<"5", "0">>}
Queries ==
    [inputMint : QueryMints, outputMint : QueryMints,
     amount : QueryAmounts, slippageBps : QuerySlippages]

\* a destructuring without the default
DefaultSlippage_None(s) == s

\* const { ..., slippageBps = '50' } = req.query
DefaultSlippage(s) == IF s = Absent THEN <<"5", "0">> ELSE s

\* the guards without the same-token one
InvalidQuery_NoSameToken(q) ==
    \/ q.inputMint = "" \/ q.outputMint = ""
    \/ IF Truthy(q.amount) THEN NumberOf(q.amount) <= 0 ELSE TRUE

\* the three guards that answer 400
InvalidQuery(q) ==
    \/ q.inputMint = "" \/ q.outputMint = ""
    \/ q.inputMint = q.outputMint
    \/ IF Truthy(q.amount) THEN NumberOf(q.amount) <= 0 ELSE TRUE

\* `${p.inputMint}:${p.outputMint}:${p.amount}:${p.slippageBps}`
cacheKey(p) == <<p.inputMint, p.outputMint, p.amount, p.slippageBps>>

KeyOf(q) ==
    cacheKey([inputMint |-> q.inputMint, outputMint |-> q.outputMint,
              amount |-> q.amount, slippageBps |-> DefaultSlippage(q.slippageBps)])

\* the queries that pass the guards
ValidQueries == {q \in Queries : ~InvalidQuery(q)}

Keys == {KeyOf(q) : q \in ValidQueries}
NoKey == <<"", "", Absent, Absent>>

\* what Jupiter may answer with a 2xx: unparsable, null, or an object with an
\* outAmount (possibly missing or "0") and a routePlan (possibly missing or empty)
ServerOuts == {<<"0">>, <<"9", "5">>}
ServerPlans == {Absent, Hops(0), Hops(1)}
ServerBodies ==
    {Malformed, JsonNull}
        \cup [kind : {"object"}, success : {TRUE}, hasData : {TRUE},
              out : ServerOuts, plan : ServerPlans]

NoEntry == [present |-> FALSE, data |-> Malformed, expires |-> 0]

\* a lookup that serves whatever entry it finds, expired or not
CacheHit_IgnoresExpiry(cached, t) == cached.present

\* a lookup with the comparison turned around
CacheHit_Inverted(cached, t) == cached.present /\ cached.expires < t

\* `cached && cached.expires > now`
CacheHit(cached, t) == cached.present /\ cached.expires > t

\* a loop that goes on after a 2xx
FailoverDecision_IgnoresOk(o) ==
    IF o.fail THEN "next"
    ELSE IF o.status = 429 \/ IsOk(o.status) THEN "next"
    ELSE "return"

\* a loop that hands a 429 to its caller
FailoverDecision_Returns429(o) == IF o.fail THEN "next" ELSE "return"

\* a loop that fails over on every non-2xx
FailoverDecision_FailsOverAll(o) ==
    IF o.fail THEN "next"
    ELSE IF IsOk(o.status) THEN "return"
    ELSE "next"

\* fetchWithFailover, one URL: "return" the response or go on to the "next" URL
FailoverDecision(o) ==
    IF o.fail THEN "next"
    ELSE IF IsOk(o.status) THEN "return"
    ELSE IF o.status = 429 THEN "next"
    ELSE "return"

NoResponse == [kind |-> "null", status |-> 0, body |-> Malformed]
NoReply == [http |-> 0, kind |-> "none", data |-> Malformed]

\* the handler after `await fetchWithFailover(urls, ...)`: what it answers
QuoteReply(response) ==
    IF response.kind = "null"
    THEN [http |-> 502, kind |-> "unavailable", data |-> Malformed]
    ELSE IF ~IsOk(response.status)
    THEN [http |-> 200, kind |-> "noroute", data |-> Malformed]
    ELSE IF response.body.kind = "malformed"
    THEN [http |-> 500, kind |-> "error", data |-> Malformed]
    ELSE IF \/ response.body.kind = "null"
            \/ response.body.plan = Absent
            \/ Len(response.body.plan) = 0
    THEN [http |-> 200, kind |-> "noroute", data |-> Malformed]
    ELSE [http |-> 200, kind |-> "quote", data |-> response.body]

\* a handler that also remembers the answers that were not quotes
StoresReply_Always(reply) == TRUE

\* quoteCache.set is reached only on the path that answers with the quote
StoresReply(reply) == reply.kind = "quote"

\* req.query of a slot that holds no lookup
NoQuery == [inputMint |-> "", outputMint |-> "", amount |-> Absent, slippageBps |-> Absent]

\* new URLSearchParams({inputMint, outputMint, amount, slippageBps, platformFeeBps}):
\* the query string sent to every endpoint (the fee is the same in all of them)
BackendQuery(q) == <<q.inputMint, q.outputMint, q.amount, DefaultSlippage(q.slippageBps)>>

\* a handler whose key lives in a variable shared by the requests in flight: the
\* write goes to the key of the other request when one is fetching
StoreKey_Shared(r) ==
    IF \E o \in Reqs \ {r} : req[o].pc = "fetch"
    THEN req[CHOOSE o \in Reqs \ {r} : req[o].pc = "fetch"].key
    ELSE req[r].key

\* quoteCache.set(key, ...): `const key` is a local of the request's own handler call
StoreKey(r) == req[r].key

IdleReq ==
    [pc |-> "idle", query |-> NoQuery, key |-> NoKey, start |-> 0, attempts |-> 0,
     hit |-> FALSE, reply |-> NoReply]

\* no lookup has filled the entry of a key
NoFill == [present |-> FALSE, start |-> 0, data |-> Malformed, sent |-> BackendQuery(NoQuery)]

RouterIdle ==
    /\ raydiumRev = "direct"
    /\ rq = [params |-> NoParams, tokenAge |-> NoHint, liquidity |-> NoHint]
    /\ cfg = NoConfig
    /\ idx = 1
    /\ calls = <<>>
    /\ rets = <<>>
    /\ faced = "none"
    /\ result = Pending
    /\ rpc = "idle"

Init ==
    /\ now = 0
    /\ quoteCache = [k \in Keys |-> NoEntry]
    /\ lastFill = [k \in Keys |-> NoFill]
    /\ req = [r \in Reqs |-> IdleReq]
    /\ RouterIdle
    /\ OthersIdle

\* time passes
Tick ==
    /\ now < MaxTicks * TickMs
    /\ now' = now + TickMs
    /\ UNCHANGED <<quoteCache, lastFill, req, rvars, ovars>>

\* GET /quote answered 400 by a guard
RejectQuote(r) ==
    /\ req[r].pc = "idle"
    /\ \E q \in Queries : InvalidQuery(q)
    /\ req' = [req EXCEPT ![r] =
            [IdleReq EXCEPT !.pc = "done",
                            !.reply = [http |-> 400, kind |-> "invalid", data |-> Malformed]]]
    /\ UNCHANGED <<now, quoteCache, lastFill, rvars, ovars>>

\* GET /quote served from quoteCache
ServeFromCache(r) ==
    /\ req[r].pc = "idle"
    /\ \E q \in ValidQueries :
        /\ CacheHit(quoteCache[KeyOf(q)], now)
        /\ req' = [req EXCEPT ![r] =
                [IdleReq EXCEPT !.pc = "done", !.query = q, !.key = KeyOf(q), !.hit = TRUE,
                                !.reply = [http |-> 200, kind |-> "quote",
                                           data |-> quoteCache[KeyOf(q)].data]]]
    /\ UNCHANGED <<now, quoteCache, lastFill, rvars, ovars>>

\* GET /quote misses the cache and requests the first endpoint
StartFetch(r) ==
    /\ req[r].pc = "idle"
    /\ \E q \in ValidQueries :
        /\ ~CacheHit(quoteCache[KeyOf(q)], now)
        /\ req' = [req EXCEPT ![r] =
                [IdleReq EXCEPT !.pc = "fetch", !.query = q, !.key = KeyOf(q), !.start = now]]
    /\ UNCHANGED <<now, quoteCache, lastFill, rvars, ovars>>

\* fetchWithFailover: this URL answered 429 or failed, the next one is requested
FetchNext(r) ==
    /\ req[r].pc = "fetch"
    /\ req[r].attempts + 1 < NumQuoteEndpoints
    /\ \E o \in Outcomes(ServerBodies) :
        /\ FailoverDecision(o) = "next"
        /\ req' = [req EXCEPT ![r].attempts = @ + 1]
    /\ UNCHANGED <<now, quoteCache, lastFill, rvars, ovars>>

\* fetchWithFailover returns (a response, or null after the last URL) and the
\* handler answers; on the quote path it writes the cache first
FetchDone(r) ==
    /\ req[r].pc = "fetch"
    /\ \E o \in Outcomes(ServerBodies) :
        LET d == FailoverDecision(o)
            response == IF d = "return"
                        THEN [kind |-> "response", status |-> o.status, body |-> o.body]
                        ELSE NoResponse
            reply == QuoteReply(response)
            k == StoreKey(r)
        IN  /\ d = "return" \/ req[r].attempts + 1 >= NumQuoteEndpoints
            /\ req' = [req EXCEPT ![r].pc = "done", ![r].start = 0,
                                  ![r].attempts = @ + 1, ![r].reply = reply]
            /\ IF StoresReply(reply)
               THEN /\ quoteCache' = [quoteCache EXCEPT ![k] =
                            [present |-> TRUE, data |-> reply.data,
                             expires |-> req[r].start + TTL_MS]]
                    /\ lastFill' = [lastFill EXCEPT ![k] =
                            [present |-> TRUE, start |-> req[r].start, data |-> reply.data,
                             sent |-> BackendQuery(req[r].query)]]
               ELSE UNCHANGED <<quoteCache, lastFill>>
    /\ UNCHANGED <<now, rvars, ovars>>

\* the response has been sent; the slot takes the next request
FinishRequest(r) ==
    /\ req[r].pc = "done"
    /\ req' = [req EXCEPT ![r] = IdleReq]
    /\ UNCHANGED <<now, quoteCache, lastFill, rvars, ovars>>

Next ==
    \/ Tick
    \/ \E r \in Reqs : RejectQuote(r)
    \/ \E r \in Reqs : ServeFromCache(r)
    \/ \E r \in Reqs : StartFetch(r)
    \/ \E r \in Reqs : FetchNext(r)
    \/ \E r \in Reqs : FetchDone(r)
    \/ \E r \in Reqs : FinishRequest(r)

Spec == Init /\ [][Next]_vars

(***************************************************************************)
(* Claims about the quote cache (checked under Spec)                       *)
(***************************************************************************)
\* request r takes a valid quote lookup in this step
LooksUp(r) == req[r].pc = "idle" /\ req'[r].pc # "idle" /\ req'[r].key # NoKey

C5_HitOnlyBeforeExpiry ==
    [][\A r \in Reqs :
        LET cached == quoteCache[req'[r].key] IN
        LooksUp(r) =>
            /\ req'[r].hit =>
                    cached.present /\ now < cached.expires /\ req'[r].reply.data = cached.data
            /\ (cached.present /\ now >= cached.expires) =>
                    ~req'[r].hit /\ req'[r].pc = "fetch" /\ req'[r].reply = NoReply]_vars

\* C5 witness: a lookup found the entry of its key expired and is fetching
C5_Witness ==
    \E r \in Reqs :
        /\ req[r].pc = "fetch"
        /\ req[r].start = now
        /\ quoteCache[req[r].key].present
        /\ quoteCache[req[r].key].expires <= req[r].start
        /\ \A o \in Reqs \ {r} : req[o].pc = "idle"

\* C6: whenever an entry is written into the quote cache, its expires is the time
\* of the write plus 15 s.
C6_ExpiryIsStoreTimePlusTTL ==
    [][\A k \in Keys :
        quoteCache'[k] # quoteCache[k] => quoteCache'[k].expires = now + TTL_MS]_vars

\* C7: the cache changes only in a step in which a request answers 200 with a
\* quote, and only at that request's key, to that quote; a request that ends
\* unavailable, in a non-2xx, in no route or in an error leaves the cache as it was.
C7_NoNegativeCaching ==
    [][/\ quoteCache' # quoteCache =>
            \E r \in Reqs :
                /\ req[r].pc = "fetch"
                /\ req'[r].pc = "done"
                /\ req'[r].reply.http = 200
                /\ req'[r].reply.kind = "quote"
                /\ quoteCache'[req[r].key].present
                /\ quoteCache'[req[r].key].data = req'[r].reply.data
                /\ \A k \in Keys \ {req[r].key} : quoteCache'[k] = quoteCache[k]
       /\ \A r \in Reqs :
            (req[r].pc # "done" /\ req'[r].pc = "done" /\ req'[r].reply.kind # "quote")
                => quoteCache' = quoteCache]_vars

\* C7 witness: a lookup that went to the backend ended without a quote, and the
\* cache holds nothing for its key
C7_Witness ==
    \E r \in Reqs :
        /\ req[r].pc = "done"
        /\ req[r].attempts >= 1
        /\ req[r].reply.kind \in {"unavailable", "noroute", "error"}
        /\ ~quoteCache[req[r].key].present

\* a quote with a positive outAmount and a route plan of at least one hop
RoutedPositive(b) ==
    /\ b.kind = "object"
    /\ b.plan # Absent
    /\ Len(b.plan) >= 1
    /\ Truthy(b.out)
    /\ NumberOf(b.out) > 0

\* C8: no quote with a zero outAmount or an empty routePlan is answered as a
\* success by the quote endpoint, and none is held in the quote cache.
C8_NoZeroQuoteServedOrCached ==
    /\ \A r \in Reqs :
        (req[r].pc = "done" /\ req[r].reply.kind = "quote") => RoutedPositive(req[r].reply.data)
    /\ \A k \in Keys : quoteCache[k].present => RoutedPositive(quoteCache[k].data)

\* C31: with concurrent quote lookups in flight, for the same or for different
\* keys, the cache holds one entry per key at most, every entry is a quote with
\* its route plan together with its expiry, and a hit only returns a quote that a
\* successful backend fetch produced for the same (inputMint, outputMint, amount,
\* slippageBps).
C31_CacheSoundUnderConcurrency ==
    /\ [](/\ DOMAIN quoteCache = Keys
          /\ \A k \in Keys :
                quoteCache[k].present =>
                    /\ quoteCache[k].data.kind = "object"
                    /\ quoteCache[k].data.plan # Absent
                    /\ Len(quoteCache[k].data.plan) >= 1
                    /\ quoteCache[k].expires >= TTL_MS
                    /\ lastFill[k].present
                    /\ lastFill[k].data = quoteCache[k].data
                    /\ lastFill[k].sent = k)
    /\ [][\A r \in Reqs :
            (LooksUp(r) /\ req'[r].hit) =>
                LET k == req'[r].key IN
                /\ lastFill[k].present
                /\ req'[r].reply.data = lastFill[k].data
                /\ lastFill[k].sent = BackendQuery(req'[r].query)]_vars

\* C31 witness: two lookups of one key were fetching at the same time and got
\* different quotes; the cache holds one of the two for that key, and another
\* key's entry is there beside it
C31_Witness ==
    /\ \A r \in Reqs :
        /\ req[r].pc = "done"
        /\ req[r].attempts >= 1
        /\ req[r].reply.kind = "quote"
    /\ \E k \in Keys :
        /\ \A r \in Reqs : req[r].key = k
        /\ \E a \in Reqs, b \in Reqs :
            /\ req[a].reply.data # req[b].reply.data
            /\ quoteCache[k].present
            /\ quoteCache[k].data = req[b].reply.data
        /\ \E other \in Keys \ {k} : quoteCache[other].present

\* the same request with slippageBps written the other way: omitted, or "50"
Twin(q) ==
    IF q.slippageBps = Absent THEN [q EXCEPT !.slippageBps = <<"5", "0">>]
    ELSE IF q.slippageBps = <<"5", "0">> THEN [q EXCEPT !.slippageBps = Absent]
    ELSE q

\* C33: a quote request that omits slippageBps is handled as the same request with
\* slippageBps=50: both have the same backend query and the same cache key, a
\* lookup of either is a hit exactly when the other would be and returns that
\* entry, and a fetch of either stores under the key of the other.
C33_OmittedSlippageIsFifty ==
    /\ [](\A q \in ValidQueries :
            /\ KeyOf(q) = KeyOf(Twin(q))
            /\ BackendQuery(q) = BackendQuery(Twin(q))
            /\ BackendQuery(q)[4] = <<"5", "0">>)
    /\ [][\A r \in Reqs :
            LET twin == KeyOf(Twin(req'[r].query)) IN
            LooksUp(r) =>
                /\ req'[r].key = twin
                /\ req'[r].hit <=> CacheHit(quoteCache[twin], now)
                /\ req'[r].hit => req'[r].reply.data = quoteCache[twin].data
                /\ ~req'[r].hit => req'[r].pc = "fetch"]_vars
    /\ [][\A r \in Reqs :
            (req[r].pc = "fetch" /\ req'[r].pc = "done" /\ req'[r].reply.kind = "quote")
                => quoteCache'[KeyOf(Twin(req[r].query))].data = req'[r].reply.data]_vars

\* C33 witness: a request with slippageBps=50 fetched a quote, and a request that
\* omits slippageBps was served that quote from the cache
C33_Witness ==
    \E a \in Reqs, b \in Reqs :
        /\ req[a].pc = "done" /\ req[b].pc = "done"
        /\ req[a].query.slippageBps = <<"5", "0">>
        /\ req[a].attempts >= 1
        /\ req[a].reply.kind = "quote"
        /\ req[b].query = Twin(req[a].query)
        /\ req[b].query.slippageBps = Absent
        /\ req[b].hit
        /\ req[b].attempts = 0
        /\ req[b].reply.data = req[a].reply.data

\* a query with a mint missing, with equal mints, or with a missing or
\* non-positive amount
MustBeRejected(q) ==
    \/ q.inputMint = ""
    \/ q.outputMint = ""
    \/ q.inputMint = q.outputMint
    \/ q.amount = Absent
    \/ q.amount = <<>>
    \/ NumberOf(q.amount) <= 0

\* C39: a quote request with a missing mint, equal mints, or a missing or
\* non-positive amount is answered 400 with no backend request and without
\* reading or changing the quote cache; no such request reaches the cache lookup.
C39_RejectedBeforeCacheAndBackend ==
    /\ [](\A q \in Queries : MustBeRejected(q) => InvalidQuery(q))
    /\ [][\A r \in Reqs :
            (req[r].pc = "idle" /\ req'[r].pc # "idle") =>
                IF req'[r].reply.kind = "invalid"
                THEN /\ req'[r].pc = "done"
                     /\ req'[r].reply.http = 400
                     /\ req'[r].attempts = 0
                     /\ ~req'[r].hit
                     /\ req'[r].key = NoKey
                     /\ quoteCache' = quoteCache
                ELSE ~MustBeRejected(req'[r].query)]_vars
    /\ [](\A r \in Reqs :
            (req[r].pc # "idle" /\ req[r].reply.kind # "invalid")
                => ~MustBeRejected(req[r].query))

\* C39 witness: a request was answered 400 while the cache held a live quote
\* and the other request was at the backend
C39_Witness ==
    \E r \in Reqs :
        /\ req[r].pc = "done"
        /\ req[r].reply.kind = "invalid"
        /\ req[r].reply.http = 400
        /\ req[r].attempts = 0
        /\ \E k \in Keys : CacheHit(quoteCache[k], now)
        /\ \E o \in Reqs \ {r} : req[o].pc = "fetch"

(***************************************************************************)
(* One failover fetch: fetchWithFailover (server.ts) and the fetch helpers *)
(* of the Jupiter executor, fetchJupiter and fetchJupiterWithRetry         *)
(***************************************************************************)
\* longest `urls` argument given to fetchWithFailover
MaxUrls == 3

\* const maxRetries = 2 in fetchJupiterWithRetry
maxRetries == 2

FetchPolicies == {"fetchWithFailover", "fetchJupiter", "fetchJupiterWithRetry"}

\* who awaits the fetch: the /quote or /swap handler, or an executor
FetchCallers == {"quote", "swap", "executor"}

\* bodies Jupiter may answer to POST /swap with a 2xx
SwapBodies ==
    [kind : {"malformed", "null"}, swapTransaction : {Absent}]
        \cup [kind : {"object"}, swapTransaction : {Absent, <<"t", "x">>}]

\* what one fetch() of the given caller may meet
FetchOutcomes(caller) ==
    CASE caller = "quote" -> Outcomes(ServerBodies)
      [] caller = "swap" -> Outcomes(SwapBodies)
      [] caller = "executor" -> Outcomes({Malformed})

\* what a request ended in: 0 when fetch() rejected, else the HTTP status
OutcomeCode(o) == IF o.fail THEN 0 ELSE o.status

\* fetchJupiter, one base URL: `if (response.ok || response.status !== 0) return response`
JupiterFetchDecision(o) ==
    IF o.fail THEN "next"
    ELSE IF IsOk(o.status) \/ o.status # 0 THEN "return"
    ELSE "next"

\* a retry loop that goes round on every 429, the last attempt included
RetryDecision_Every429(o, i) ==
    IF o.fail THEN "next"
    ELSE IF IsOk(o.status) THEN "return"
    ELSE IF o.status = 429 THEN "next"
    ELSE "return"

\* fetchJupiterWithRetry, attempt i (from 0): return the response, or wait and loop
RetryDecision(o, i) ==
    IF o.fail THEN "next"
    ELSE IF IsOk(o.status) THEN "return"
    ELSE IF o.status = 429 /\ i < maxRetries THEN "next"
    ELSE "return"

\* the decision of the running loop on outcome o of its iteration i (from 1)
LoopDecision(policy, o, i) ==
    CASE policy = "fetchWithFailover" -> FailoverDecision(o)
      [] policy = "fetchJupiter" -> JupiterFetchDecision(o)
      [] policy = "fetchJupiterWithRetry" -> RetryDecision(o, i - 1)

\* how many iterations the loop has at most
Iterations(policy, n) == IF policy = "fetchJupiterWithRetry" THEN maxRetries + 1 ELSE n

\* the URL (position in the list) that iteration i requests
UrlAt(policy, i) == IF policy = "fetchJupiterWithRetry" THEN 1 ELSE i

\* a loop that requests the same URL again
NextUrl_Same(i) == i

\* a loop that passes over one URL
NextUrl_SkipsOne(i) == i + 2

\* `for (const url of urls)`: the next iteration
NextUrl(i) == i + 1

\* the /swap handler after `await fetchWithFailover(JUPITER_SWAP_ENDPOINTS, ...)`
SwapReply(response) ==
    IF response.kind = "null"
    THEN [http |-> 502, kind |-> "unavailable"]
    ELSE IF ~IsOk(response.status)
    THEN [http |-> 400, kind |-> "buildfailed"]
    ELSE IF response.body.kind = "malformed"
    THEN [http |-> 500, kind |-> "error"]
    ELSE IF response.body.kind = "null"
    THEN [http |-> 400, kind |-> "notransaction"]
    ELSE IF ~Truthy(response.body.swapTransaction)
    THEN [http |-> 400, kind |-> "notransaction"]
    ELSE [http |-> 200, kind |-> "transaction"]

NoFetchResult == [kind |-> "pending", status |-> 0, url |-> 0, body |-> Malformed]
NullFetchResult == [kind |-> "null", status |-> 0, url |-> 0, body |-> Malformed]

IdleFetch ==
    [pc |-> "idle", policy |-> "fetchWithFailover", caller |-> "quote", n |-> 0, i |-> 1,
     reqs |-> <<>>, outs |-> <<>>, ret |-> NoFetchResult, http |-> 0]

InitFailover ==
    /\ failover = IdleFetch
    /\ exec = <<>>
    /\ allq = <<>>
    /\ RouterIdle
    /\ ServerIdle

\* a fetch loop is entered
BeginFetch ==
    /\ failover.pc = "idle"
    /\ \E policy \in FetchPolicies, caller \in FetchCallers, n \in 0..MaxUrls :
        /\ policy = "fetchWithFailover" <=> caller \in {"quote", "swap"}
        /\ policy = "fetchJupiter" => n = NumJupiterApis
        /\ policy = "fetchJupiterWithRetry" => n = 1
        /\ failover' = [IdleFetch EXCEPT !.pc = "loop", !.policy = policy,
                                         !.caller = caller, !.n = n]
    /\ UNCHANGED <<rvars, svars, exec, allq>>

\* one iteration: the URL is requested; the loop returns the response or goes on
FetchUrl ==
    /\ failover.pc = "loop"
    /\ failover.i <= Iterations(failover.policy, failover.n)
    /\ \E o \in FetchOutcomes(failover.caller) :
        LET url == UrlAt(failover.policy, failover.i)
            d == LoopDecision(failover.policy, o, failover.i)
        IN  failover' =
                IF d = "return"
                THEN [failover EXCEPT !.pc = "returned",
                                      !.reqs = Append(@, url),
                                      !.outs = Append(@, OutcomeCode(o)),
                                      !.ret = [kind |-> "response", status |-> o.status,
                                               url |-> url, body |-> o.body]]
                ELSE [failover EXCEPT !.i = NextUrl(@),
                                      !.reqs = Append(@, url),
                                      !.outs = Append(@, OutcomeCode(o))]
    /\ UNCHANGED <<rvars, svars, exec, allq>>

\* the loop is over without a return: 'All endpoints failed', return null
FetchExhausted ==
    /\ failover.pc = "loop"
    /\ failover.i > Iterations(failover.policy, failover.n)
    /\ failover' = [failover EXCEPT !.pc = "returned", !.ret = NullFetchResult]
    /\ UNCHANGED <<rvars, svars, exec, allq>>

\* the /quote or /swap handler answers its client from what fetchWithFailover returned
AnswerClient ==
    /\ failover.pc = "returned"
    /\ failover.caller \in {"quote", "swap"}
    /\ failover' = [failover EXCEPT
            !.pc = "answered",
            !.http = IF failover.caller = "quote"
                     THEN QuoteReply(failover.ret).http
                     ELSE SwapReply(failover.ret).http]
    /\ UNCHANGED <<rvars, svars, exec, allq>>

\* the caller is done with the result
EndFetch ==
    /\ \/ failover.pc = "answered"
       \/ failover.pc = "returned" /\ failover.caller = "executor"
    /\ failover' = IdleFetch
    /\ UNCHANGED <<rvars, svars, exec, allq>>

NextFailover ==
    \/ BeginFetch
    \/ FetchUrl
    \/ FetchExhausted
    \/ AnswerClient
    \/ EndFetch

SpecFailover == InitFailover /\ [][NextFailover]_vars

\* every fetch is bounded by its timeout and the handlers run to completion
SpecFailoverFair == SpecFailover /\ WF_vars(NextFailover)

(***************************************************************************)
(* Claims about the failover fetch (checked under SpecFailover)            *)
(***************************************************************************)
\* the running loop is fetchWithFailover
IsFailover == failover.pc # "idle" /\ failover.policy = "fetchWithFailover"

\* the requests made so far are URLs 1, 2, ... of the list, each once, in order
RequestedInOrder ==
    /\ Len(failover.reqs) = Len(failover.outs)
    /\ Len(failover.reqs) <= failover.n
    /\ \A j \in 1..Len(failover.reqs) : failover.reqs[j] = j

\* request j ended in a 429 or in a transport-level failure
Transient(j) == failover.outs[j] \in {0, 429}

\* the loop has returned the response of request j, which was its last request
ReturnedAt(j) ==
    /\ j = Len(failover.reqs)
    /\ failover.pc # "loop"
    /\ failover.ret.kind = "response"
    /\ failover.ret.url = failover.reqs[j]
    /\ failover.ret.status = failover.outs[j]

\* C12: fetchWithFailover returns the first 2xx response it meets in URL-list order
\* and requests no URL after it (after 429 then 200 there is no third request).
C12_FirstOkReturned ==
    IsFailover =>
        /\ RequestedInOrder
        /\ \A j \in 1..Len(failover.outs) : IsOk(failover.outs[j]) => ReturnedAt(j)

\* C12 witness: of three URLs the first answered 429 and the second 200; the second
\* response was returned and the third URL was not requested
C12_Witness ==
    /\ IsFailover
    /\ failover.n = 3
    /\ failover.outs = <<429, 200>>
    /\ failover.reqs = <<1, 2>>
    /\ failover.pc = "answered"
    /\ failover.ret.url = 2

\* C13: in fetchWithFailover a 429 or a transport-level failure on a URL that is
\* not the last does not end the operation: nothing is returned on it, and the next
\* request is the next URL of the list.
C13_TransientGoesToNextUrl ==
    IsFailover =>
        \A j \in 1..Len(failover.outs) :
            (Transient(j) /\ j < failover.n) =>
                /\ failover.reqs[j] = j
                /\ IF Len(failover.reqs) = j
                   THEN failover.pc = "loop" /\ failover.i = j + 1
                        /\ failover.ret = NoFetchResult
                   ELSE failover.reqs[j + 1] = j + 1

\* C13 witness: the first URL failed at transport level, the second answered 429,
\* and the third URL was requested
C13_Witness ==
    /\ IsFailover
    /\ Len(failover.outs) = 3
    /\ failover.outs[1] = 0
    /\ failover.outs[2] = 429
    /\ failover.reqs = <<1, 2, 3>>

\* C14: in fetchWithFailover a non-2xx response other than 429 is returned to the
\* caller at once, and no later URL of the list is requested.
C14_OtherStatusReturnedAtOnce ==
    IsFailover =>
        \A j \in 1..Len(failover.outs) :
            (~IsOk(failover.outs[j]) /\ ~Transient(j)) => ReturnedAt(j)

\* C14 witness: the first of several URLs answered 500, that response was returned
\* and no other URL was requested
C14_Witness ==
    /\ IsFailover
    /\ failover.n >= 2
    /\ failover.outs = <<500>>
    /\ failover.pc # "loop"
    /\ failover.ret.kind = "response"
    /\ failover.ret.status = 500

\* the loop is over and every request ended in a 429 or a transport-level failure
AllTransient ==
    /\ failover.pc \in {"returned", "answered"}
    /\ \A j \in 1..Len(failover.outs) : Transient(j)

\* C15: fetchWithFailover always terminates; it requests each URL at most once, in
\* list order; when every URL ended in a 429 or a transport-level failure it has
\* requested them all and returns null; it returns null or a response, never an
\* exception.
C15_TerminatesWithNullWhenExhausted ==
    /\ [](IsFailover =>
            /\ RequestedInOrder
            /\ failover.ret.kind \in {"pending", "null", "response"}
            /\ failover.pc \in {"returned", "answered"} => failover.ret.kind # "pending"
            /\ AllTransient =>
                    failover.ret = NullFetchResult /\ Len(failover.reqs) = failover.n)
    /\ (IsFailover /\ failover.pc = "loop") ~> (failover.pc # "loop")

\* C15 witness: three URLs, each requested once and each ended in a 429 or a
\* failure, and null was returned
C15_Witness ==
    /\ IsFailover
    /\ failover.n = 3
    /\ failover.reqs = <<1, 2, 3>>
    /\ AllTransient
    /\ 429 \in {failover.outs[j] : j \in 1..3}
    /\ 0 \in {failover.outs[j] : j \in 1..3}
    /\ failover.ret = NullFetchResult

\* C16: a 429 of the backend is never surfaced: fetchWithFailover never returns a
\* response of status 429, and the /quote and /swap handlers never answer 429.
C16_RateLimitNeverSurfaced ==
    IsFailover =>
        /\ failover.ret.kind = "response" => failover.ret.status # 429
        /\ failover.http # 429
        /\ failover.pc = "answered" => failover.http \in {200, 400, 500, 502}

\* C16 witness: the backend answered 429 and the handler has answered its client
C16_Witness ==
    /\ IsFailover
    /\ failover.pc = "answered"
    /\ \E j \in 1..Len(failover.outs) : failover.outs[j] = 429
    /\ failover.caller = "swap"

\* C17: the fetch of the aggregator executor follows the failover policy: it never
\* requests the same URL twice, and on a 429 or a transport-level failure with an
\* equivalent endpoint left it neither returns nor stops but goes on to the next one.
C17_ExecutorFetchFailsOver ==
    (failover.pc # "idle" /\ failover.caller = "executor") =>
        /\ \A j \in 1..Len(failover.reqs) : failover.reqs[j] = j
        /\ \A j \in 1..Len(failover.outs) :
            (Transient(j) /\ j < NumJupiterApis) =>
                \/ Len(failover.reqs) > j
                \/ failover.pc = "loop"

\* the running loop is fetchJupiterWithRetry
IsRetry == failover.pc # "idle" /\ failover.policy = "fetchJupiterWithRetry"

\* C38: fetchJupiterWithRetry terminates after 3 requests at most, all to the same
\* URL: it returns the first 2xx response; it goes round again only after a
\* transport failure or a 429, and only while retries remain, so the 429 of the
\* last attempt is returned; any other non-2xx is returned at once; it returns
\* null only when the last attempt failed at transport level.
C38_RetryLoopBoundedAndExact ==
    /\ [](IsRetry =>
            LET n == Len(failover.reqs) IN
            /\ n <= 3
            /\ Len(failover.outs) = n
            /\ \A j \in 1..n : failover.reqs[j] = 1
            /\ \A j \in 1..(n - 1) : failover.outs[j] \in {0, 429}
            /\ failover.pc = "loop" => \A j \in 1..n : failover.outs[j] \in {0, 429}
            /\ (failover.pc = "returned" /\ failover.ret.kind = "response") =>
                    /\ n >= 1
                    /\ failover.outs[n] = failover.ret.status
                    /\ failover.ret.status # 0
                    /\ failover.ret.status = 429 => n = 3
            /\ (failover.pc = "returned" /\ failover.ret.kind = "null") =>
                    /\ n = 3
                    /\ failover.outs[n] = 0)
    /\ (IsRetry /\ failover.pc = "loop") ~> (failover.pc # "loop")

\* C38 witness: three 429 answers in a row: the third one was returned
C38_Witness ==
    /\ IsRetry
    /\ failover.pc = "returned"
    /\ failover.outs = <<429, 429, 429>>
    /\ failover.reqs = <<1, 1, 1>>
    /\ failover.ret.kind = "response"
    /\ failover.ret.status = 429

(***************************************************************************)
(* executeSwap and the executors' swap()                                   *)
(***************************************************************************)
\* the two revisions of executeSwap: "viaJupiter" builds every transaction with
\* the Jupiter executor, "viaSource" with the executor named by quote.source
SwapRevs == {"viaJupiter", "viaSource"}

\* Quote.source is a string: an executor's name, or one that names no executor
QuoteSources == ExecutorNames \cup {"other"}

\* the quotes executeSwap is called with; raw: _raw is present (and complete)
SwapQuotes ==
    [source : QuoteSources, inputMint : {SOL_MINT}, outputMint : {USDC_MINT, OTHER_MINT},
     inAmount : {<<"1", "0", "0", "0">>, <<"5", "0", "0", "0", "0", "0">>},
     slippageBps : {50, 100}, routePlan : {Hops(1), Hops(2)}, raw : BOOLEAN]

\* { swapTransaction, source }
SwapResult(source, tx) == [kind |-> "swapresult", source |-> source, swapTransaction |-> tx]

\* the answers one swap() call may meet; swapTransaction stands for the field that
\* carries the transaction (swapTransaction, transaction, data[0].transaction)
SwapNetsFor(e) ==
    CASE e = "jupiter" -> [1..NumJupiterApis -> Outcomes(SwapBodies)]
      [] e \in {"raydium", "orca", "phoenix"} -> [1..1 -> Outcomes(SwapBodies)]
      [] OTHER -> {<<NetThrow>>}

\* a swap() that does not look for the transaction field
BuildFromResponse_AnyBody(source, status, body) ==
    IF ~IsOk(status) THEN Null
    ELSE IF body.kind # "object" THEN Throw
    ELSE SwapResult(source, body.swapTransaction)

\* the part of swap() after a response arrived: !response.ok, json(), the
\* transaction field
BuildFromResponse(source, status, body) ==
    IF ~IsOk(status) THEN Null
    ELSE IF body.kind # "object" THEN Throw
    ELSE IF ~Truthy(body.swapTransaction) THEN Null
    ELSE SwapResult(source, body.swapTransaction)

JupiterSwapBody(quote, nets) ==
    IF ~quote.raw THEN Null
    ELSE LET response == fetchJupiter(nets) IN
         IF response.kind = "null" THEN Null
         ELSE BuildFromResponse("jupiter", response.status, response.body)

JupiterSwap(quote, nets) == CatchToNull(JupiterSwapBody(quote, nets))

\* rev = "quoteOnly": swap() returns null without any request
RaydiumSwapBody(rev, quote, net) ==
    IF rev = "quoteOnly" THEN Null
    ELSE IF ~quote.raw THEN Null
    ELSE IF Len(quote.routePlan) # 1 THEN Null
    ELSE IF net.fail THEN Throw
    ELSE BuildFromResponse("raydium", net.status, net.body)

RaydiumSwap(rev, quote, net) == CatchToNull(RaydiumSwapBody(rev, quote, net))

OrcaSwapBody(quote, net) ==
    IF net.fail THEN Throw
    ELSE BuildFromResponse("orca", net.status, net.body)

OrcaSwap(quote, net) == CatchToNull(OrcaSwapBody(quote, net))

PhoenixSwapBody(quote, net) ==
    IF ~quote.raw THEN Null
    ELSE IF net.fail THEN Throw
    ELSE BuildFromResponse("phoenix", net.status, net.body)

PhoenixSwap(quote, net) == CatchToNull(PhoenixSwapBody(quote, net))

OpenBookSwap(quote) == Null

\* executor.swap(quote, userPublicKey) under the network answers nets
ExecutorSwap(e, rev, quote, nets) ==
    CASE e = "jupiter" -> JupiterSwap(quote, nets)
      [] e = "raydium" -> RaydiumSwap(rev, quote, nets[1])
      [] e = "orca" -> OrcaSwap(quote, nets[1])
      [] e = "phoenix" -> PhoenixSwap(quote, nets[1])
      [] e = "openbook" -> OpenBookSwap(quote)

\* the response the swap() call got from its backend: null when every fetch was
\* rejected
SwapAnswer(e, nets) ==
    IF e = "jupiter" THEN fetchJupiter(nets)
    ELSE IF nets[1].fail THEN Null
    ELSE [kind |-> "response", status |-> nets[1].status, body |-> nets[1].body]

\* a router that builds from every Jupiter quote, with or without its payload
BuildsDirectly_AnyJupiter(quote) == quote.source = "jupiter"

\* a router that builds from any quote that carries a payload
BuildsDirectly_AnySource(quote) == quote.raw

\* a router that always asks for a fresh quote first
BuildsDirectly_Never(quote) == FALSE

\* swap() of executor e gets as far as its build request (the POST to its backend)
AttemptsBuild(e, rev, quote) ==
    CASE e = "jupiter" -> quote.raw
      [] e = "raydium" -> rev = "direct" /\ quote.raw /\ Len(quote.routePlan) = 1
      [] e = "orca" -> TRUE
      [] e = "phoenix" -> quote.raw
      [] e = "openbook" -> FALSE

\* `quote.source === 'jupiter' && quote._raw`
BuildsDirectly(quote) == quote.source = "jupiter" /\ quote.raw

\* the parameters of the fresh Jupiter quote
ReQuoteParams(quote) ==
    [inputMint |-> quote.inputMint, outputMint |-> quote.outputMint,
     amount |-> quote.inAmount, slippageBps |-> quote.slippageBps]

\* the executor whose swap() executeSwap calls
Builder(rev, quote) == IF rev = "viaJupiter" THEN "jupiter" ELSE quote.source

NoQuote ==
    [source |-> "", inputMint |-> "", outputMint |-> "", inAmount |-> <<>>,
     slippageBps |-> 0, routePlan |-> <<>>, raw |-> FALSE]

IdleExec ==
    [pc |-> "idle", rev |-> "viaJupiter", quote |-> NoQuote, building |-> NoQuote,
     calls |-> <<>>, answer |-> Null, result |-> Pending]

InitSwap ==
    /\ raydiumRev \in {"direct", "quoteOnly"}
    /\ rq = [params |-> NoParams, tokenAge |-> NoHint, liquidity |-> NoHint]
    /\ cfg = NoConfig
    /\ idx = 1
    /\ calls = <<>>
    /\ rets = <<>>
    /\ faced = "none"
    /\ result = Pending
    /\ rpc = "idle"
    /\ ServerIdle
    /\ failover = <<>>
    /\ exec = IdleExec
    /\ allq = <<>>

\* executeSwap(quote, userPublicKey) is called
BeginExecuteSwap ==
    /\ exec.pc = "idle"
    /\ \E rev \in SwapRevs, quote \in SwapQuotes :
        exec' = [IdleExec EXCEPT !.pc = "start", !.rev = rev, !.quote = quote]
    /\ UNCHANGED <<rvars, svars, failover, allq>>

\* "viaSource": executors.find found no executor of that name
UnknownExecutor ==
    /\ exec.pc = "start"
    /\ exec.rev = "viaSource"
    /\ ~FindExecutor(exec.quote.source)
    /\ exec' = [exec EXCEPT !.pc = "done", !.result = Null]
    /\ UNCHANGED <<rvars, svars, failover, allq>>

\* "viaJupiter", a quote that is not Jupiter's own with its _raw: a fresh Jupiter
\* quote is awaited; null ends the call
ReQuote ==
    /\ exec.pc = "start"
    /\ exec.rev = "viaJupiter"
    /\ ~BuildsDirectly(exec.quote)
    /\ \E nets \in NetsFor("jupiter") :
        LET params == ReQuoteParams(exec.quote)
            freshQuote == JupiterQuote(params, nets)
            made == Append(exec.calls, [op |-> "quote", executor |-> "jupiter",
                                        params |-> params, requested |-> TRUE])
        IN  exec' =
                IF freshQuote = Null
                THEN [exec EXCEPT !.pc = "done", !.calls = made, !.result = Null]
                ELSE [exec EXCEPT !.pc = "build", !.calls = made,
                                  !.building = [exec.quote EXCEPT
                                        !.source = "jupiter",
                                        !.routePlan = freshQuote.routePlan,
                                        !.raw = TRUE]]
    /\ UNCHANGED <<rvars, svars, failover, allq>>

\* `return executor.swap(quote, userPublicKey)`
Build ==
    /\ \/ /\ exec.pc = "start"
          /\ exec.rev = "viaJupiter" => BuildsDirectly(exec.quote)
          /\ exec.rev = "viaSource" => FindExecutor(exec.quote.source)
       \/ exec.pc = "build"
    /\ LET quote == IF exec.pc = "build" THEN exec.building ELSE exec.quote
           e == Builder(exec.rev, quote)
       IN  \E nets \in SwapNetsFor(e) :
            exec' = [exec EXCEPT
                !.pc = "done",
                !.building = quote,
                !.calls = Append(@, [op |-> "swap", executor |-> e,
                                     params |-> ReQuoteParams(quote),
                                     requested |-> AttemptsBuild(e, raydiumRev, quote)]),
                !.answer = IF AttemptsBuild(e, raydiumRev, quote)
                           THEN SwapAnswer(e, nets) ELSE Null,
                !.result = ExecutorSwap(e, raydiumRev, quote, nets)]
    /\ UNCHANGED <<rvars, svars, failover, allq>>

\* the caller has the result
ReturnSwap ==
    /\ exec.pc = "done"
    /\ exec' = IdleExec
    /\ UNCHANGED <<rvars, svars, failover, allq>>

NextSwap ==
    \/ BeginExecuteSwap
    \/ UnknownExecutor
    \/ ReQuote
    \/ Build
    \/ ReturnSwap

SpecSwap == InitSwap /\ [][NextSwap]_vars

C19_BuildsDirectlyFromJupiterQuote ==
    (exec.pc # "idle" /\ exec.quote.source = "jupiter" /\ exec.quote.raw) =>
        /\ \A j \in 1..Len(exec.calls) : exec.calls[j].op # "quote"
        /\ Len(exec.calls) <= 1
        /\ exec.pc # "build"
        /\ exec.pc = "done" =>
                /\ Len(exec.calls) = 1
                /\ exec.calls[1].op = "swap"
                /\ exec.calls[1].executor = "jupiter"
                /\ exec.building = exec.quote

\* C19 witness: a Jupiter quote with its payload was built into a transaction
C19_Witness ==
    /\ exec.pc = "done"
    /\ exec.rev = "viaJupiter"
    /\ exec.quote.source = "jupiter"
    /\ exec.quote.raw
    /\ exec.calls # <<>>
    /\ exec.result = SwapResult("jupiter", <<"t", "x">>)

C20_OnlyJupiterBuilds ==
    /\ \A j \in 1..Len(exec.calls) :
        exec.calls[j].op = "swap" => exec.calls[j].executor = "jupiter"
    /\ exec.result.kind = "swapresult" => exec.result.source = "jupiter"

\* C21: swap() of every executor other than jupiter returns null for every quote
\* and wallet key, and sends no build request to its backend.
C21_OnlyJupiterAttemptsBuild ==
    \A j \in 1..Len(exec.calls) :
        (exec.calls[j].op = "swap" /\ exec.calls[j].executor # "jupiter") =>
            /\ ~exec.calls[j].requested
            /\ exec.pc = "done" => exec.result = Null


(***************************************************************************)
(* getAllQuotes: every capable executor quoted at once                     *)
(***************************************************************************)
\* the calls followed here: all five executors capable, jupiter not capable
\* (amount below 1000), the order books not capable (stable pair)
AllQuotesParams ==
    { [inputMint |-> SOL_MINT, outputMint |-> USDC_MINT,
       amount |-> <<"5", "0", "0", "0", "0", "0">>, slippageBps |-> 50],
      [inputMint |-> SOL_MINT, outputMint |-> USDT_MINT,
       amount |-> <<"9", "9", "9">>, slippageBps |-> 50],
      [inputMint |-> USDC_MINT, outputMint |-> USDT_MINT,
       amount |-> <<"5", "0", "0", "0", "0", "0">>, slippageBps |-> 50] }

\* output amounts the backends answer with here: "0", "00", "94", "95"
AllQuotesOuts == {<<"0">>, <<"0", "0">>, <<"9", "4">>, <<"9", "5">>}

\* the network answers followed here: a rejected fetch, a non-2xx status, an
\* unparsable body, or a one-hop answer with one of the amounts above
AllQuotesNets(e) ==
    {nets \in NetsFor(e) :
        \A i \in 1..Len(nets) :
            nets[i].body.kind = "object" =>
                /\ nets[i].body.plan = Hops(1)
                /\ nets[i].body.out \in AllQuotesOuts
                /\ nets[i].body.success
                /\ nets[i].body.hasData}

\* executors.filter(e => e.canHandle(params)), in priority order
Capable(params) == SelectSeq(executors, LAMBDA e : canHandle(e, params))

\* what the promise of one mapped executor fulfils with: the quote when it passes
\* `quote && quote.outAmount && quote.outAmount !== '0'`, null otherwise, and null
\* when quote() threw (the promise never rejects)
QuotePromise(r) ==
    IF r.kind = "throw" THEN Null
    ELSE IF RouterAccepts(r) THEN r
    ELSE Null

\* results listed in the order the promises settled
ResultsOrder_ByCompletion(n, done) == done

\* Promise.allSettled: results[i] belongs to the i-th promise handed in
ResultsOrder(n, done) == [i \in 1..n |-> i]

\* a comparison sort that puts a later element ahead of its equals
InsertSorted_AheadOfTies(sorted, q) ==
    LET ahead == {i \in 1..Len(sorted) :
                    \A j \in 1..i : NumberOf(sorted[j].outAmount) > NumberOf(q.outAmount)}
        k == Cardinality(ahead)
    IN  SubSeq(sorted, 1, k) \o <<q>> \o SubSeq(sorted, k + 1, Len(sorted))

\* Array.prototype.sort with (a, b) => Number(b.outAmount) - Number(a.outAmount):
\* stable, so q goes behind every element that does not compare after it
InsertSorted(sorted, q) ==
    LET ahead == {i \in 1..Len(sorted) :
                    \A j \in 1..i : NumberOf(sorted[j].outAmount) >= NumberOf(q.outAmount)}
        k == Cardinality(ahead)
    IN  SubSeq(sorted, 1, k) \o <<q>> \o SubSeq(sorted, k + 1, Len(sorted))

RECURSIVE SortFrom(_, _, _)
SortFrom(qs, i, sorted) ==
    IF i > Len(qs) THEN sorted
    ELSE SortFrom(qs, i + 1, InsertSorted(sorted, qs[i]))

\* quotes.sort(...)
SortQuotes(qs) == SortFrom(qs, 1, <<>>)

\* the loop over results: push every fulfilled, non-null value
PushFulfilled(values, order) ==
    LET listed == [i \in 1..Len(order) |-> values[order[i]]]
    IN  SelectSeq(listed, LAMBDA v : v.kind = "quote")

IdleAllQuotes ==
    [pc |-> "idle", params |-> NoParams, launched |-> <<>>, raw |-> <<>>,
     done |-> <<>>, quotes |-> <<>>]

InitAllQuotes ==
    /\ raydiumRev \in {"direct", "quoteOnly"}
    /\ rq = [params |-> NoParams, tokenAge |-> NoHint, liquidity |-> NoHint]
    /\ cfg = NoConfig
    /\ idx = 1
    /\ calls = <<>>
    /\ rets = <<>>
    /\ faced = "none"
    /\ result = Pending
    /\ rpc = "idle"
    /\ ServerIdle
    /\ failover = <<>>
    /\ exec = <<>>
    /\ allq = IdleAllQuotes

\* getAllQuotes(params) is called: filter and map run to the end, so quote() has
\* been called on every capable executor before the first `await` yields
BeginAllQuotes ==
    /\ allq.pc = "idle"
    /\ \E params \in AllQuotesParams :
        LET launched == Capable(params) IN
        allq' = [IdleAllQuotes EXCEPT
                    !.pc = "settling", !.params = params, !.launched = launched,
                    !.raw = [i \in 1..Len(launched) |-> Pending]]
    /\ UNCHANGED <<rvars, svars, failover, exec>>

\* the quote() of one launched executor resolves or throws, in any order
SettleQuote ==
    /\ allq.pc = "settling"
    /\ \E i \in 1..Len(allq.launched) :
        /\ allq.raw[i] = Pending
        /\ \E nets \in AllQuotesNets(allq.launched[i]) :
            allq' = [allq EXCEPT
                        !.raw[i] = ExecutorQuote(allq.launched[i], raydiumRev,
                                                 allq.params, nets),
                        !.done = Append(allq.done, i)]
    /\ UNCHANGED <<rvars, svars, failover, exec>>

\* every promise has settled: collect, sort, return
CollectQuotes ==
    /\ allq.pc = "settling"
    /\ Len(allq.done) = Len(allq.launched)
    /\ LET n == Len(allq.launched)
           values == [i \in 1..n |-> QuotePromise(allq.raw[i])]
       IN  allq' = [allq EXCEPT
                       !.pc = "done",
                       !.quotes = SortQuotes(PushFulfilled(values, ResultsOrder(n, allq.done)))]
    /\ UNCHANGED <<rvars, svars, failover, exec>>

\* the caller has the list
ReturnAllQuotes ==
    /\ allq.pc = "done"
    /\ allq' = IdleAllQuotes
    /\ UNCHANGED <<rvars, svars, failover, exec>>

NextAllQuotes ==
    \/ BeginAllQuotes
    \/ SettleQuote
    \/ CollectQuotes
    \/ ReturnAllQuotes

SpecAllQuotes == InitAllQuotes /\ [][NextAllQuotes]_vars

(***************************************************************************)
(* Claims about getAllQuotes                                               *)
(***************************************************************************)
\* position of an executor in the priority order
Priority(name) == CHOOSE i \in 1..Len(executors) : executors[i] = name

\* the returned list is in descending order of output amount
SortedDescending(qs) ==
    \A i \in 1..Len(qs) : \A j \in 1..Len(qs) :
        i < j => NumberOf(qs[i].outAmount) >= NumberOf(qs[j].outAmount)

\* quote() of the i-th launched executor gave a quote with a non-zero output
GaveNonZero(i) ==
    /\ allq.raw[i].kind = "quote"
    /\ Truthy(allq.raw[i].outAmount)
    /\ NumberOf(allq.raw[i].outAmount) # 0

\* C23: getAllQuotes returns exactly the quotes of the capable executors whose
\* quote() gave a non-null result with a non-zero output, in descending order of
\* output amount; an executor that failed contributes nothing.
C23_ExactlyNonZeroQuotesSorted ==
    allq.pc = "done" =>
        LET n == Len(allq.launched)
            good == {i \in 1..n : GaveNonZero(i)}
        IN  /\ allq.launched = Capable(allq.params)
            /\ Len(allq.quotes) = Cardinality(good)
            /\ \A i \in good : \E j \in 1..Len(allq.quotes) : allq.quotes[j] = allq.raw[i]
            /\ SortedDescending(allq.quotes)

\* C24: two returned quotes with equal output amount appear in the priority order
\* of their executors, whatever order the calls completed in.
C24_TiesInPriorityOrder ==
    allq.pc = "done" =>
        \A i \in 1..Len(allq.quotes) : \A j \in 1..Len(allq.quotes) :
            (i < j /\ NumberOf(allq.quotes[i].outAmount) = NumberOf(allq.quotes[j].outAmount))
                => Priority(allq.quotes[i].source) < Priority(allq.quotes[j].source)

\* C24 witness: two returned quotes tie, and the executor of lower priority
\* completed first
C24_Witness ==
    /\ allq.pc = "done"
    /\ \E i \in 1..Len(allq.launched) : \E j \in 1..Len(allq.launched) :
        /\ i < j
        /\ allq.raw[i].kind = "quote" /\ allq.raw[j].kind = "quote"
        /\ allq.raw[i].outAmount = <<"9", "4">> /\ allq.raw[j].outAmount = <<"9", "4">>
        /\ \E a \in 1..Len(allq.done) : \E b \in 1..Len(allq.done) :
            a < b /\ allq.done[a] = j /\ allq.done[b] = i

\* the list a call returns is fixed by what each executor answered alone
QuotesOf(raw) ==
    LET kept == {i \in DOMAIN raw : QuotePromise(raw[i]).kind = "quote"} IN
    CHOOSE qs \in [1..Cardinality(kept) -> {raw[i] : i \in kept}] :
        /\ \A i \in kept : \E j \in DOMAIN qs : qs[j] = raw[i]
        /\ SortedDescending(qs)
        /\ \A i \in DOMAIN qs : \A j \in DOMAIN qs :
            (i < j /\ NumberOf(qs[i].outAmount) = NumberOf(qs[j].outAmount))
                => Priority(qs[i].source) < Priority(qs[j].source)

\* C25: quote() is called on every capable executor before any of them resolves,
\* the call returns only when all have settled, and the list returned is the same
\* for every completion order: each executor contributes its own quote whatever
\* the others did.
C25_AllLaunchedAllSettled ==
    /\ allq.pc # "idle" =>
        /\ allq.launched = Capable(allq.params)
        /\ Len(allq.done) <= Len(allq.launched)
        /\ \A i \in 1..Len(allq.launched) :
            allq.raw[i] = Pending <=> ~(\E a \in 1..Len(allq.done) : allq.done[a] = i)
    /\ allq.pc = "done" =>
        /\ \A i \in 1..Len(allq.launched) : allq.raw[i] # Pending
        /\ allq.quotes = QuotesOf(allq.raw)

\* C25 witness: the executors completed in the reverse of the order they were
\* launched in, one of them failed, and the others' quotes are returned
C25_Witness ==
    /\ allq.pc = "done"
    /\ Len(allq.launched) >= 3
    /\ \A a \in 1..Len(allq.done) : allq.done[a] = Len(allq.launched) + 1 - a
    /\ allq.raw[1].kind = "null"
    /\ Len(allq.quotes) = 2
    /\ NumberOf(allq.quotes[1].outAmount) > NumberOf(allq.quotes[2].outAmount)

(***************************************************************************)
(* The quote cache next to /swap, executeSwap and getAllQuotes             *)
(***************************************************************************)
\* JUPITER_SWAP_ENDPOINTS.length
NumSwapEndpoints == 2

\* a /swap handler that answers from the quote cache when it holds a live quote
SwapSource_CacheFirst(cache, t) ==
    IF \E k \in Keys : CacheHit(cache[k], t) THEN "cache" ELSE "backend"

\* where the /swap handler takes its answer from: it goes from the body straight to
\* fetchWithFailover(JUPITER_SWAP_ENDPOINTS, ...); quoteCache is not consulted
SwapSource(cache, t) == "backend"

\* the quotes executeSwap is followed with here
FrameQuotes ==
    {q \in SwapQuotes :
        /\ q.source \in {"jupiter", "other"}
        /\ q.outputMint = USDC_MINT
        /\ q.inAmount = <<"1", "0", "0", "0">>
        /\ q.slippageBps = 50
        /\ q.routePlan = Hops(1)
        /\ q.raw}

\* the params getAllQuotes is followed with here
FrameParams == {p \in AllQuotesParams : p.inputMint = USDC_MINT}

\* no /swap request, executeSwap or getAllQuotes call is running
OpsIdle == failover.pc = "idle" /\ exec.pc = "idle" /\ allq.pc = "idle"

\* nor any /quote request
Quiet == OpsIdle /\ \A r \in Reqs : req[r].pc = "idle"

InitCacheFrame ==
    /\ now = 0
    /\ quoteCache = [k \in Keys |-> NoEntry]
    /\ lastFill = [k \in Keys |-> NoFill]
    /\ req = [r \in Reqs |-> IdleReq]
    /\ RouterIdle
    /\ failover = IdleFetch
    /\ exec = IdleExec
    /\ allq = IdleAllQuotes

\* POST /swap arrives: 400 when quoteResponse or userPublicKey is missing, else the
\* payload is built and fetchWithFailover is entered
BeginSwapRequest ==
    /\ failover.pc = "idle"
    /\ \E complete \in BOOLEAN :
        failover' =
            IF ~complete
            THEN [IdleFetch EXCEPT !.pc = "answered", !.caller = "swap", !.http = 400]
            ELSE IF SwapSource(quoteCache, now) = "backend"
            THEN [IdleFetch EXCEPT !.pc = "loop", !.caller = "swap",
                                   !.n = NumSwapEndpoints]
            ELSE [IdleFetch EXCEPT !.pc = "answered", !.caller = "swap", !.http = 200]
    /\ UNCHANGED <<rvars, svars, exec, allq>>

\* the server with its cache and one /quote request in flight, and one of the three
\* operations at a time
NextCacheFrame ==
    \/ OpsIdle /\ Next /\ req'["r2"] = IdleReq
    \/ Quiet /\ BeginSwapRequest
    \/ failover.caller = "swap" /\ FetchUrl
    \/ failover.caller = "swap" /\ FetchExhausted
    \/ failover.caller = "swap" /\ AnswerClient
    \/ failover.caller = "swap" /\ EndFetch
    \/ Quiet /\ BeginExecuteSwap /\ exec'.quote \in FrameQuotes
    \/ UnknownExecutor
    \/ ReQuote
    \/ Build
    \/ ReturnSwap
    \/ Quiet /\ BeginAllQuotes /\ allq'.params \in FrameParams
    \/ SettleQuote
    \/ CollectQuotes
    \/ ReturnAllQuotes

SpecCacheFrame == InitCacheFrame /\ [][NextCacheFrame]_vars

\* the cache holds a quote that a lookup now would serve
LiveQuoteCached == \E k \in Keys : CacheHit(quoteCache[k], now)

\* C26: /swap, executeSwap and getAllQuotes are independent of the quote cache:
\* no step of theirs changes the cache, and their answers come from backend calls
\* whatever the cache holds: a transaction answered by /swap was fetched, a swap
\* result of executeSwap was built by an executor, and getAllQuotes calls every
\* capable executor and returns what they answered.
C26_OpsIndependentOfCache ==
    /\ [][(failover' # failover \/ exec' # exec \/ allq' # allq)
            => quoteCache' = quoteCache]_vars
    /\ []((failover.caller = "swap" /\ failover.pc = "answered" /\ failover.http = 200)
            => (Len(failover.reqs) >= 1 /\ failover.ret.kind = "response"))
    /\ []((exec.pc = "done" /\ exec.result.kind = "swapresult")
            => (\E i \in 1..Len(exec.calls) : exec.calls[i].op = "swap"))
    /\ [](allq.pc # "idle" => allq.launched = Capable(allq.params))
    /\ [](allq.pc = "done" => allq.quotes = QuotesOf(allq.raw))

\* C26 witness: /swap answered a transaction it fetched from a backend while the
\* cache held a live quote
C26_Witness ==
    /\ LiveQuoteCached
    /\ failover.caller = "swap"
    /\ failover.pc = "answered"
    /\ failover.http = 200
    /\ Len(failover.reqs) >= 1

\* a build response that is 2xx and carries the serialized transaction
CarriesTransaction(response) ==
    /\ response.kind = "response"
    /\ IsOk(response.status)
    /\ response.body.kind = "object"
    /\ Truthy(response.body.swapTransaction)

\* C34: the swap() of the Jupiter executor returns a SwapResult, and /swap answers
\* with success, only when the build response is 2xx and contains the serialized
\* transaction, and the SwapResult carries that transaction; in every other case
\* swap() returns null and /swap answers with an error.
C34_SuccessCarriesTransaction ==
    /\ (exec.pc = "done" /\ exec.calls # <<>>
            /\ exec.calls[Len(exec.calls)].op = "swap"
            /\ exec.calls[Len(exec.calls)].executor = "jupiter") =>
                IF CarriesTransaction(exec.answer)
                THEN exec.result =
                        SwapResult("jupiter", exec.answer.body.swapTransaction)
                ELSE exec.result = Null
    /\ (failover.caller = "swap" /\ failover.pc = "answered") =>
            /\ failover.http = 200 <=> CarriesTransaction(failover.ret)
            /\ failover.http # 200 => failover.http \in {400, 500, 502}

\* C34 witness: Jupiter answered the build request 2xx with a transaction, and
\* swap() returned a SwapResult that carries it
C34_Witness ==
    /\ exec.pc = "done"
    /\ exec.calls # <<>>
    /\ exec.calls[Len(exec.calls)].op = "swap"
    /\ exec.calls[Len(exec.calls)].executor = "jupiter"
    /\ CarriesTransaction(exec.answer)
    /\ exec.result.kind = "swapresult"
    /\ exec.result.swapTransaction = <<"t", "x">>

====
